---- MODULE Spec2Model ----
(***************************************************************************)
(* A model of phockup's placement engine (src/src/phockup.py), its action  *)
(* log (src/src/logger.py) and the filesystem it acts on.                  *)
(*                                                                         *)
(* Strings (paths, file names, MIME types, checksums) are sequences of     *)
(* one-character strings, so that os.path and str operations are computed *)
(* character by character as Python computes them.                         *)
(***************************************************************************)
EXTENDS Integers, Sequences, FiniteSets, TLC

(***************************************************************************)
(* Python str / os.path (posixpath) operations                             *)
(***************************************************************************)

\* os.path.sep
sep == <<"/">>

\* str.endswith
endswith(s, t) ==
    /\ Len(s) >= Len(t)
    /\ SubSeq(s, Len(s) - Len(t) + 1, Len(s)) = t

\* str.startswith
startswith(s, t) ==
    /\ Len(s) >= Len(t)
    /\ SubSeq(s, 1, Len(t)) = t

\* s[i:] matches t at (1-based) position i
MatchAt(s, i, t) ==
    /\ i + Len(t) - 1 <= Len(s)
    /\ SubSeq(s, i, i + Len(t) - 1) = t

\* str.rfind(ch) as a 1-based index, 0 when ch does not occur
rfind(s, ch) ==
    LET hits == { i \in 1..Len(s) : s[i] = ch }
    IN  IF hits = {} THEN 0 ELSE CHOOSE i \in hits : \A j \in hits : j <= i

\* str.replace(old, new): every non-overlapping occurrence, left to right
RECURSIVE ReplaceFrom(_, _, _, _)
ReplaceFrom(s, i, old, new) ==
    IF i > Len(s) THEN <<>>
    ELSE IF MatchAt(s, i, old)
         THEN new \o ReplaceFrom(s, i + Len(old), old, new)
         ELSE <<s[i]>> \o ReplaceFrom(s, i + 1, old, new)

replace(s, old, new) ==
    IF old = <<>> THEN s ELSE ReplaceFrom(s, 1, old, new)

\* str.lower on the letters the model's names use
LowerChar(c) ==
    CASE c = "A" -> "a"
      [] c = "B" -> "b"
      [] c = "J" -> "j"
      [] c = "N" -> "n"
      [] c = "D" -> "d"
      [] c = "S" -> "s"
      [] c = "T" -> "t"
      [] c = "Z" -> "z"
      [] OTHER   -> c

lower(s) == [ i \in 1..Len(s) |-> LowerChar(s[i]) ]

\* str.rstrip('/')
RECURSIVE rstripSep(_)
rstripSep(s) ==
    IF s # <<>> /\ s[Len(s)] = "/" THEN rstripSep(SubSeq(s, 1, Len(s) - 1)) ELSE s

\* os.path.dirname (posixpath)
dirname(p) ==
    LET i    == rfind(p, "/")
        head == SubSeq(p, 1, i)
    IN  IF head # <<>> /\ \E k \in 1..Len(head) : head[k] # "/"
        THEN rstripSep(head)
        ELSE head

\* os.path.basename (posixpath)
basename(p) == SubSeq(p, rfind(p, "/") + 1, Len(p))

\* os.path.splitext (genericpath._splitext): <<root, ext>>; the dots that
\* lead the last component do not start an extension
splitext(p) ==
    LET sepIndex == rfind(p, "/")
        dotIndex == rfind(p, ".")
    IN  IF /\ dotIndex > sepIndex
           /\ \E k \in (sepIndex + 1)..(dotIndex - 1) : p[k] # "."
        THEN << SubSeq(p, 1, dotIndex - 1), SubSeq(p, dotIndex, Len(p)) >>
        ELSE << p, <<>> >>

\* The working directory of the process (os.getcwd())
Cwd == <<"/", "w">>

\* os.path.abspath on paths that hold no "." or ".." component and no
\* doubled separator: a relative path is joined to the working directory
abspath(p) ==
    IF startswith(p, sep) THEN p ELSE Cwd \o sep \o p

\* os.path.sep.join(parts)
RECURSIVE sepjoin(_)
sepjoin(parts) ==
    IF Len(parts) = 0 THEN <<>>
    ELSE IF Len(parts) = 1 THEN parts[1]
    ELSE parts[1] \o sep \o sepjoin(Tail(parts))

\* The decimal digits
DigitChar == <<"0", "1", "2", "3", "4", "5", "6", "7", "8", "9">>

\* '%d' % n for n >= 0
RECURSIVE FormatD(_)
FormatD(n) ==
    IF n < 10 THEN <<DigitChar[n + 1]>>
    ELSE FormatD(n \div 10) \o <<DigitChar[(n % 10) + 1]>>

\* '%0<w>d' % n for n >= 0: zero-padded to at least w digits
RECURSIVE ZeroPad(_, _)
ZeroPad(s, w) == IF Len(s) >= w THEN s ELSE ZeroPad(<<"0">> \o s, w)

Format0D(n, w) == ZeroPad(FormatD(n), w)

\* The order of the characters by code point, for list.sort() of strings
CharOrder ==
    <<"-", ".", "/", "0", "1", "2", "3", "4", "5", "6", "7", "8", "9",
      "A", "B", "D", "J", "N", "S", "T", "Z", "_",
      "a", "b", "c", "d", "e", "f", "g", "h", "i", "j", "k", "l", "m",
      "n", "o", "p", "q", "r", "s", "t", "u", "v", "w", "x", "y", "z">>

Ord(c) == CHOOSE i \in 1..Len(CharOrder) : CharOrder[i] = c

\* s < t as Python compares str
RECURSIVE StrLess(_, _)
StrLess(s, t) ==
    IF t = <<>> THEN FALSE
    ELSE IF s = <<>> THEN TRUE
    ELSE IF s[1] = t[1] THEN StrLess(Tail(s), Tail(t))
    ELSE Ord(s[1]) < Ord(t[1])

\* sorted(S) for a finite set of strings
RECURSIVE SortedSeq(_)
SortedSeq(S) ==
    IF S = {} THEN <<>>
    ELSE LET m == CHOOSE x \in S : \A y \in S \ {x} : StrLess(x, y)
         IN  <<m>> \o SortedSeq(S \ {m})

(***************************************************************************)
(* The filesystem: the regular files (path -> content) and the directories. *)
(* A content is [id, log]: id names the bytes of a media file (0 for a     *)
(* pickled log), log is the mapping a pickled log holds.                   *)
(***************************************************************************)

\* The content of a media file
Bytes(id) == [id |-> id, log |-> <<>>]

\* The kernel's path resolution: repeated separators count as one and a
\* trailing separator is dropped
RECURSIVE Squeeze(_)
Squeeze(p) ==
    IF Len(p) <= 1 THEN p
    ELSE IF p[1] = "/" /\ p[2] = "/" THEN Squeeze(Tail(p))
    ELSE <<p[1]>> \o Squeeze(Tail(p))

Resolve(p) ==
    LET q == Squeeze(p)
    IN  IF Len(q) > 1 /\ q[Len(q)] = "/" THEN SubSeq(q, 1, Len(q) - 1) ELSE q

\* os.path.isfile / os.path.isdir / os.path.exists
isfile(fs, p) == Resolve(p) \in DOMAIN fs.files
isdir(fs, p)  == Resolve(p) \in fs.dirs
exists(fs, p) == isfile(fs, p) \/ isdir(fs, p)

\* The directory p itself and every ancestor of it
Ancestors(p) ==
    { SubSeq(p, 1, i) : i \in { k \in 1..Len(p) : k = Len(p) \/ (k >= 1 /\ p[k + 1] = "/") } }

\* os.makedirs(p): p and its missing ancestors become directories
makedirs(fs, p) ==
    [fs EXCEPT !.dirs = @ \cup { d \in Ancestors(Resolve(p)) : d # <<>> }]

\* f extended or overwritten at key k
Put(f, k, v) == [ x \in DOMAIN f \cup {k} |-> IF x = k THEN v ELSE f[x] ]

\* f without key k
Drop(f, k) == [ x \in DOMAIN f \ {k} |-> f[x] ]

\* shutil.copy2(src, dst) of an existing src: dst is created or overwritten
copy2(fs, src, dst) ==
    [fs EXCEPT !.files = Put(@, Resolve(dst), fs.files[Resolve(src)])]

\* A move that leaves the source where it was
moveKeepingSource(fs, src, dst) ==
    [fs EXCEPT !.files = Put(@, Resolve(dst), fs.files[Resolve(src)])]

\* shutil.move(src, dst) of an existing src onto a file path: os.rename
move(fs, src, dst) ==
    [fs EXCEPT !.files = Drop(Put(@, Resolve(dst), fs.files[Resolve(src)]), Resolve(src))]

\* os.link(src, dst) of an existing src to a free dst: a second name of the
\* same content
link(fs, src, dst) ==
    [fs EXCEPT !.files = Put(@, Resolve(dst), fs.files[Resolve(src)])]

\* Removal of a file by another process
unlink(fs, p) == [fs EXCEPT !.files = Drop(@, Resolve(p))]

(***************************************************************************)
(* Checksum engine                                                         *)
(***************************************************************************)

\* A checksum of the file's path instead of its content
checksumOfPath(fs, file) == << Resolve(file) >>

\* Phockup.checksum of an existing file: the SHA-256 hex digest, modelled as a
\* non-empty string that is different for different contents
checksum(fs, file) == << fs.files[Resolve(file)] >>

(***************************************************************************)
(* Action log (src/src/logger.py)                                          *)
(***************************************************************************)

ACTIONS_STR == <<"copy", "move", "link", "skip", "ignore">>

ActionIndex(a) == (CHOOSE i \in 1..Len(ACTIONS_STR) : ACTIONS_STR[i] = a) - 1

ACTION_COPY   == ActionIndex("copy")
ACTION_MOVE   == ActionIndex("move")
ACTION_LINK   == ActionIndex("link")
ACTION_SKIP   == ActionIndex("skip")
ACTION_IGNORE == ActionIndex("ignore")

\* Logger.__init__: self.entries = {}
NoEntries == [ h \in {} |-> <<>> ]

\* The assertion of Logger.add_entry
LegalAction(action) ==
    action \in {ACTION_COPY, ACTION_MOVE, ACTION_LINK, ACTION_SKIP, ACTION_IGNORE}

\* The entry Logger.add_entry builds (its timestamp, the wall clock, is left out)
Entry(src, dst, action) ==
    [src |-> src, dst |-> dst, action |-> ACTIONS_STR[action + 1]]

\* An add_entry that starts the sequence of the fingerprint afresh
add_entryReplacing(entries, hashsum, src, dst, action) ==
    Put(entries, hashsum, <<Entry(src, dst, action)>>)

\* Logger.add_entry with a legal action
add_entry(entries, hashsum, src, dst, action) ==
    IF hashsum \in DOMAIN entries
    THEN [entries EXCEPT ![hashsum] = Append(@, Entry(src, dst, action))]
    ELSE Put(entries, hashsum, <<Entry(src, dst, action)>>)

\* The content Logger.save_to_disk writes: pickle.dump(self.entries)
Pickled(entries) == [id |-> 0, log |-> entries]

\* Logger.save_to_disk(filename) into an existing directory
save_to_disk(fs, entries, filename) ==
    [fs EXCEPT !.files = Put(@, Resolve(filename), Pickled(entries))]

\* Logger.read_from_disk(filename) of a file that save_to_disk wrote:
\* self.entries becomes what pickle.load returns
read_from_disk(fs, filename) == fs.files[Resolve(filename)].log

(***************************************************************************)
(* The input tree and the external collaborators (Exif, Date)              *)
(***************************************************************************)

\* A capture date 2023-01-01 12:00:00 (a datetime)
D1 == [year |-> 2023, month |-> 1, day |-> 1, hour |-> 12, minute |-> 0, second |-> 0]

\* Python's None, an empty dict and False: falsy, without any key
None == <<>>

\* bool(x) of a dict or None
Truthy(x) == DOMAIN x # {}

\* What Date.from_exif returns: {'date', 'guessing', 'subseconds'}
DateDict(d, guessing, subseconds) ==
    [date |-> d, guessing |-> guessing, subseconds |-> subseconds]

ImageJpeg == <<"i", "m", "a", "g", "e", "/", "j", "p", "e", "g">>
TextPlain == <<"t", "e", "x", "t", "/", "p", "l", "a", "i", "n">>

\* The files an input tree is drawn from: path, content, and what the
\* metadata extractor and the date resolver answer for the file
Catalog ==
    { [path |-> <<"/", "i", "/", "a", ".", "j">>, id |-> 1,
       exif |-> [MIMEType |-> ImageJpeg], date |-> DateDict(D1, FALSE, <<>>)],
      [path |-> <<"/", "i", "/", "b", ".", "j">>, id |-> 2,
       exif |-> [MIMEType |-> ImageJpeg], date |-> DateDict(D1, FALSE, <<>>)],
      [path |-> <<"/", "i", "/", "c", ".", "j">>, id |-> 3,
       exif |-> [MIMEType |-> ImageJpeg], date |-> DateDict(D1, FALSE, <<>>)],
      [path |-> <<"/", "i", "/", "a", ".", "x", "m", "p">>, id |-> 4,
       exif |-> None, date |-> None],
      [path |-> <<"/", "i", "/", "b", ".", "j", ".", "x", "m", "p">>, id |-> 5,
       exif |-> None, date |-> None],
      [path |-> <<"/", "i", "/", "b", ".", "x", "m", "p">>, id |-> 6,
       exif |-> None, date |-> None],
      [path |-> <<"/", "i", "/", ".", "D", "S", "_", "S", "t", "o", "r", "e">>, id |-> 7,
       exif |-> None, date |-> None],
      [path |-> <<"/", "i", "/", "s", "/", "d", ".", "t">>, id |-> 8,
       exif |-> [MIMEType |-> TextPlain], date |-> None],
      [path |-> <<"/", "i", "/", "g", ".", "j">>, id |-> 9,
       exif |-> [MIMEType |-> ImageJpeg], date |-> DateDict(D1, TRUE, <<"0", "7">>)],
      [path |-> <<"/", "i", "/", "N", ".", "J">>, id |-> 10,
       exif |-> [MIMEType |-> ImageJpeg], date |-> DateDict(None, FALSE, <<>>)],
      [path |-> <<"/", "i", "/", "s", "/", "e", ".", "j">>, id |-> 11,
       exif |-> [MIMEType |-> ImageJpeg], date |-> DateDict(D1, FALSE, <<>>)],
      [path |-> <<"/", "i", "/", "t", "/", "f", ".", "j">>, id |-> 12,
       exif |-> [MIMEType |-> ImageJpeg], date |-> DateDict(D1, FALSE, <<>>)],
      [path |-> <<"/", "i", "/", "b", ".", "k">>, id |-> 13,
       exif |-> [MIMEType |-> ImageJpeg], date |-> DateDict(D1, FALSE, <<>>)] }

CatalogEntry(file) == CHOOSE e \in Catalog : e.path = file

\* Exif(file).data(): the metadata mapping, None when there is none
ExifData(file) == CatalogEntry(file).exif

\* Date(file).from_exif(exif_data, timestamp, date_regex, date_field)
DateFromExif(file) == CatalogEntry(file).date

(***************************************************************************)
(* Phockup: naming (src/src/phockup.py)                                     *)
(***************************************************************************)

\* An ignore list without the desktop metadata file
ignored_filesShort ==
    { <<"T", "h", "u", "m", "b", "s", ".", "d", "b">> }

ignored_files ==
    { <<".", "D", "S", "_", "S", "t", "o", "r", "e">>,
      <<"T", "h", "u", "m", "b", "s", ".", "d", "b">>,
      <<"Z", "b", "T", "h", "u", "m", "b", "n", "a", "i", "l", ".", "i", "n", "f", "o">> }

DotXmp  == <<".", "x", "m", "p">>
Archive == <<"a", "r", "c", "h", "i", "v", "e">>
Unknown == <<"u", "n", "k", "n", "o", "w", "n">>

\* Phockup.is_image_or_video: re.match of
\* '^(image/.+|video/.+|application/vnd.adobe.photoshop)$', whose unescaped
\* dots match any character
is_image_or_video(mimetype) ==
    LET image == <<"i", "m", "a", "g", "e", "/">>
        video == <<"v", "i", "d", "e", "o", "/">>
        adobe == <<"a", "p", "p", "l", "i", "c", "a", "t", "i", "o", "n", "/",
                   "v", "n", "d", ".", "a", "d", "o", "b", "e", ".",
                   "p", "h", "o", "t", "o", "s", "h", "o", "p">>
    IN  \/ startswith(mimetype, image) /\ Len(mimetype) > Len(image)
        \/ startswith(mimetype, video) /\ Len(mimetype) > Len(video)
        \/ /\ Len(mimetype) = Len(adobe)
           /\ \A k \in 1..Len(adobe) : adobe[k] = "." \/ mimetype[k] = adobe[k]

\* date.strftime(self.dir_format) for the default dir_format, '%Y/%m/%d'
strftime(d) ==
    sepjoin(<< Format0D(d.year, 4), Format0D(d.month, 2), Format0D(d.day, 2) >>)

\* The 'unknown' branch of get_output_dir: the directory of the file with
\* every occurrence of the root (and a separator) removed
rel_path_from_root(self, file) ==
    LET root == IF self.path_root # <<>> THEN self.path_root ELSE self.input
        repl == IF endswith(root, sep) THEN root ELSE root \o sep
    IN  replace(dirname(abspath(file)), repl, <<>>)

\* A dated branch that is taken for a guessed date too
UsableDateOrGuess(date) ==
    /\ Truthy(date)
    /\ Truthy(date.date)

\* Whether get_output_dir takes the dated branch: a date that is there and
\* not a guess, whose datetime formats without raising
UsableDate(date) ==
    /\ Truthy(date)
    /\ ~date.guessing
    /\ Truthy(date.date)

\* Phockup.get_output_dir: the path it returns
get_output_dir(self, date, file) ==
    IF UsableDate(date)
    THEN sepjoin(<< self.output, Archive, strftime(date.date) >>)
    ELSE sepjoin(<< self.output, Unknown, rel_path_from_root(self, file) >>)

\* Phockup.get_output_dir: its effect, the directory made unless dry_run
EnsureDir(self, fs, fullpath) ==
    IF ~isdir(fs, fullpath) /\ ~self.dry_run THEN makedirs(fs, fullpath) ELSE fs

\* A get_file_name that leaves the subseconds out of the name
get_file_nameNoSubseconds(self, file, date) ==
    IF self.original_filenames THEN basename(file)
    ELSE IF Truthy(date) /\ Truthy(date.date)
    THEN LET d == date.date
         IN  Format0D(d.year, 4) \o Format0D(d.month, 2) \o Format0D(d.day, 2)
             \o <<"_">>
             \o Format0D(d.hour, 2) \o Format0D(d.minute, 2) \o Format0D(d.second, 2)
             \o splitext(file)[2]
    ELSE basename(file)

\* Phockup.get_file_name
get_file_name(self, file, date) ==
    IF self.original_filenames THEN basename(file)
    ELSE IF Truthy(date) /\ Truthy(date.date)
    THEN LET d == date.date
         IN  Format0D(d.year, 4) \o Format0D(d.month, 2) \o Format0D(d.day, 2)
             \o <<"_">>
             \o Format0D(d.hour, 2) \o Format0D(d.minute, 2) \o Format0D(d.second, 2)
             \o date.subseconds
             \o splitext(file)[2]
    ELSE basename(file)

\* Whether get_file_name_and_path classifies the file as an image or video
Classified(file) ==
    LET exif_data == ExifData(file)
    IN  /\ Truthy(exif_data)
        /\ "MIMEType" \in DOMAIN exif_data
        /\ is_image_or_video(exif_data.MIMEType)

\* get_file_name_and_path, lines 235, 239 and 241: what it returns
NameAndPath(output, target_file_name) ==
    [output |-> output, target_file_name |-> target_file_name,
     target_file_path |-> sepjoin(<<output, target_file_name>>)]

\* Phockup.get_file_name_and_path: [output, target_file_name, target_file_path]
get_file_name_and_path(self, file) ==
    IF Classified(file)
    THEN NameAndPath(get_output_dir(self, DateFromExif(file), file),
                     lower(get_file_name(self, file, DateFromExif(file))))
    ELSE NameAndPath(get_output_dir(self, None, file), basename(file))

(***************************************************************************)
(* Phockup: process_file and process_xmp                                   *)
(***************************************************************************)

\* The empty string
EmptyStr == <<>>

\* No exception
NoExc == ""

\* The source hashed up front whether or not the log is wanted
InitialChecksumAlways(self, fs, file) == checksum(fs, file)

\* process_file, lines 184-187: the source is hashed up front only when the
\* log is wanted
InitialChecksum(self, fs, file) ==
    IF self.output_log THEN checksum(fs, file) ELSE EmptyStr

\* process_file, line 181
InitialSuffix == 1

\* A numbering that skips a number at every collision
NextSuffixSkipping(suffix) == suffix + 2

\* process_file, line 220
NextSuffix(suffix) == suffix + 1

\* process_file, lines 221-222: "%s-%d%s" % (root, suffix, ext)
SuffixedPath(target_file_path, suffix) ==
    LET target_split == splitext(target_file_path)
    IN  target_split[1] \o <<"-">> \o FormatD(suffix) \o target_split[2]

\* process_file, lines 191-192: the source's checksum at a candidate that
\* exists, computed now unless the log already needed it
SourceChecksum(self, fs, file, cs) ==
    IF ~self.output_log THEN checksum(fs, file) ELSE cs

\* process_file, lines 189-196 and 220-222: the candidates are tried until one
\* is a duplicate of the source or is free
RECURSIVE CollisionLoop(_, _, _, _, _, _, _)
RECURSIVE ExistingCandidate(_, _, _, _, _, _, _)
CollisionLoop(self, fs, file, target_file_path, suffix, target_file, cs) ==
    IF isfile(fs, target_file)
    THEN ExistingCandidate(self, fs, file, target_file_path, suffix, target_file,
                           SourceChecksum(self, fs, file, cs))
    ELSE [found |-> "free", suffix |-> suffix,
          target_file |-> target_file, checksum |-> cs]

\* process_file, lines 193-196 and 220-222: cs is the source's checksum
ExistingCandidate(self, fs, file, target_file_path, suffix, target_file, cs) ==
    IF cs = checksum(fs, target_file)
    THEN [found |-> "duplicate", suffix |-> suffix,
          target_file |-> target_file, checksum |-> cs]
    ELSE CollisionLoop(self, fs, file, target_file_path, NextSuffix(suffix),
                       SuffixedPath(target_file_path, NextSuffix(suffix)), cs)

\* process_xmp, line 250
XmpSuffix(suffix) == IF suffix > 1 THEN <<"-">> \o FormatD(suffix) ELSE EmptyStr

\* process_xmp, lines 252-254: the sidecar named after the whole file name
XmpWithExt(file, file_name, suffix) ==
    [xmp_original |-> file \o DotXmp,
     xmp_target   |-> file_name \o XmpSuffix(suffix) \o DotXmp]

\* process_xmp, lines 255-257: the sidecar named after the file name without
\* its extension
XmpWithoutExt(file, file_name, suffix) ==
    [xmp_original |-> splitext(file)[1] \o DotXmp,
     xmp_target   |-> splitext(file_name)[1] \o XmpSuffix(suffix) \o DotXmp]

\* process_xmp, lines 247-260: [xmp_original, xmp_target], None when the file
\* has no sidecar
FindXmp(fs, file, file_name, suffix) ==
    IF isfile(fs, file \o DotXmp)
    THEN XmpWithExt(file, file_name, suffix)
    ELSE IF isfile(fs, splitext(file)[1] \o DotXmp)
    THEN XmpWithoutExt(file, file_name, suffix)
    ELSE None

\* What process_xmp leaves: the filesystem, the exception that left it and
\* the sidecar's source and destination (None when there is no sidecar)
XmpResult(fs, e, xmp_original, xmp_path) ==
    [fs |-> fs, exc |-> e, xmp_original |-> xmp_original, xmp_path |-> xmp_path]

\* process_xmp, lines 266-272: the sidecar's transfer
XmpTransfer(self, fs, xmp_original, xmp_path) ==
    IF self.dry_run THEN XmpResult(fs, NoExc, xmp_original, xmp_path)
    ELSE IF self.move
    THEN XmpResult(move(fs, xmp_original, xmp_path), NoExc, xmp_original, xmp_path)
    ELSE IF self.link
    THEN IF exists(fs, xmp_path)
         THEN XmpResult(fs, "FileExistsError", xmp_original, xmp_path)
         ELSE XmpResult(link(fs, xmp_original, xmp_path), NoExc, xmp_original, xmp_path)
    ELSE XmpResult(copy2(fs, xmp_original, xmp_path), NoExc, xmp_original, xmp_path)

\* process_xmp, lines 262-272, for the sidecar xmp that was found
XmpFound(self, fs, output, xmp) ==
    IF ~Truthy(xmp)
    THEN XmpResult(fs, NoExc, None, None)
    ELSE XmpTransfer(self, fs, xmp.xmp_original, sepjoin(<<output, xmp.xmp_target>>))

\* Phockup.process_xmp
process_xmp(self, fs, file, file_name, suffix, output) ==
    XmpFound(self, fs, output, FindXmp(fs, file, file_name, suffix))

\* What the transfer step of process_file leaves; xmp tells whether
\* process_xmp is reached
StepResult(fs, entries, outcome, e, xmp) ==
    [fs |-> fs, entries |-> entries, outcome |-> outcome, exc |-> e, xmp |-> xmp]

\* A skip that removes the duplicate source
SkipDuplicateRemoving(fs, entries, file, target_file, cs) ==
    StepResult(unlink(fs, file), add_entry(entries, cs, file, target_file, ACTION_SKIP),
               "skip", NoExc, FALSE)

\* process_file, lines 193-196: the source is a duplicate of the candidate
SkipDuplicate(fs, entries, file, target_file, cs) ==
    StepResult(fs, add_entry(entries, cs, file, target_file, ACTION_SKIP),
               "skip", NoExc, FALSE)

\* process_file, lines 198-214: the transfer to a free candidate; gone tells
\* that the source no longer exists when the transfer is attempted
Transfer(self, fs, entries, file, target_file, cs, gone) ==
    IF self.move /\ ~self.dry_run
    THEN IF gone
         THEN StepResult(fs, entries, "missing", NoExc, FALSE)
         ELSE StepResult(move(fs, file, target_file),
                         add_entry(entries, cs, file, target_file, ACTION_MOVE),
                         "move", NoExc, TRUE)
    ELSE IF self.link /\ ~self.dry_run
    THEN IF gone
         THEN StepResult(fs, entries, "raised", "FileNotFoundError", FALSE)
         ELSE StepResult(link(fs, file, target_file),
                         add_entry(entries, cs, file, target_file, ACTION_LINK),
                         "link", NoExc, TRUE)
    ELSE IF ~self.dry_run
    THEN IF gone
         THEN StepResult(fs, entries, "missing", NoExc, FALSE)
         ELSE StepResult(copy2(fs, file, target_file),
                         add_entry(entries, cs, file, target_file, ACTION_COPY),
                         "copy", NoExc, TRUE)
    ELSE StepResult(fs, entries, "dry", NoExc, TRUE)

\* The locals of a process_file call when it ends
CallRecord(file, np, loop, outcome, gone, e, xmp_original, xmp_path) ==
    [file |-> file, outcome |-> outcome, gone |-> gone, exc |-> e,
     output |-> np.output,
     target_file_name |-> np.target_file_name,
     target_file_path |-> np.target_file_path,
     suffix |-> loop.suffix, target_file |-> loop.target_file,
     checksum |-> loop.checksum,
     xmp_original |-> xmp_original, xmp_path |-> xmp_path]

\* process_file, line 175: the call returns at once
NoCall(file) ==
    CallRecord(file,
               [output |-> None, target_file_name |-> None, target_file_path |-> None],
               [suffix |-> InitialSuffix, target_file |-> None, checksum |-> EmptyStr],
               "xmp", FALSE, NoExc, None, None)

(***************************************************************************)
(* The run: Phockup.__init__ calls check_directories and walk_directory    *)
(* and then saves the log                                                  *)
(***************************************************************************)

\* Bounds of the model: the files of an input tree, and the source files
\* another process removes during a run
MaxFiles  == 3
MaxVanish == 1

VARIABLES
    self,      \* the Phockup object's fields (the configuration)
    disk,      \* the filesystem: [files, dirs]
    logger,    \* the module-level logger's entries
    pc,        \* where the program is: "main", "exited", or in __init__ at
               \* "check", "walk", "done" or "aborted"
    todo,      \* the files walk_directory has still to visit, in order
    calls,     \* the process_file calls of this run, with their locals
    run,       \* "first" or "second" run of the program
    first,     \* the first run, once over: its dry_run, calls and filesystems
    disk0,     \* the filesystem when this run started
    vanished,  \* the source files another process removed
    exc        \* the exception that aborted the run, NoExc when none did

vars == <<self, disk, logger, pc, todo, calls, run, first, disk0, vanished, exc>>

InputRoot  == <<"/", "i">>
OutputRoot == <<"/", "o">>

\* An output tree left by an earlier run: a copy of the content of /i/a.j
\* under the name the engine gives it
SeededFile == <<"/", "o", "/", "a", "r", "c", "h", "i", "v", "e", "/",
                "2", "0", "2", "3", "/", "0", "1", "/", "0", "1", "/",
                "2", "0", "2", "3", "0", "1", "0", "1", "_",
                "1", "2", "0", "0", "0", "0", ".", "j">>

\* The filesystem that holds the input tree S and, when seeded, the output tree
InitialDisk(S, seeded) ==
    LET inputs == [ p \in { e.path : e \in S } |-> Bytes(CatalogEntry(p).id) ]
        indirs == {InputRoot} \cup { dirname(e.path) : e \in S }
    IN  IF seeded
        THEN [files |-> Put(inputs, SeededFile, Bytes(1)),
              dirs  |-> indirs \cup Ancestors(dirname(SeededFile))]
        ELSE [files |-> inputs, dirs |-> indirs]

NoFirst == [dry_run |-> FALSE, calls |-> <<>>, before |-> None, after |-> None,
            log |-> NoEntries]

\* The dated files of the catalog that lie in subdirectories of the input root
Nested == { e \in Catalog : UsableDate(e.date) /\ dirname(e.path) # InputRoot }

\* The files of the catalog of a second media format
OtherFormat == { e \in Catalog : splitext(e.path)[2] = <<".", "k">> }

\* The files of the catalog whose date is usable or that have no metadata,
\* the dated files of subdirectories and the second format apart
Plain ==
    { e \in Catalog \ (Nested \cup OtherFormat) : Truthy(e.date) => UsableDate(e.date) }

\* The state after the arguments are stored (__init__, lines 23-42), on a
\* filesystem that holds the input tree S
Start(S, seeded, mv, ln, dry, lg, orig, root) ==
    /\ self = [input |-> InputRoot, output |-> OutputRoot,
               move |-> mv, link |-> ln, dry_run |-> dry, output_log |-> lg,
               original_filenames |-> orig, path_root |-> root]
    /\ disk = InitialDisk(S, seeded)
    /\ disk0 = disk
    /\ logger = NoEntries
    /\ pc = "check"
    /\ todo = <<>>
    /\ calls = <<>>
    /\ run = "first"
    /\ first = NoFirst
    /\ vanished = 0
    /\ exc = NoExc

\* Runs on input trees of up to MaxFiles files, with the names derived from
\* the dates and the default path_root
Init ==
    \E mv \in BOOLEAN, ln \in BOOLEAN, dry \in BOOLEAN, lg \in BOOLEAN,
       S \in SUBSET Plain, seeded \in BOOLEAN :
         /\ Cardinality(S) <= MaxFiles
         /\ Start(S, seeded, mv, ln, dry, lg, FALSE, EmptyStr)

\* The values of path_root the naming is computed for: unset, and '/'
PathRoots == { EmptyStr, sep }

\* Runs on input trees of one file, for every naming option
InitNames ==
    \E mv \in BOOLEAN, dry \in BOOLEAN, orig \in BOOLEAN, root \in PathRoots,
       e \in Catalog :
         Start({e}, FALSE, mv, FALSE, dry, FALSE, orig, root)

\* The sequences that hold every element of the finite set S once
RECURSIVE Orders(_)
Orders(S) ==
    IF S = {} THEN { <<>> }
    ELSE UNION { { <<x>> \o o : o \in Orders(S \ {x}) } : x \in S }

\* The files of directory d, as os.walk lists them and files.sort() orders them
SortedFilesOf(fs, d) ==
    LET names == SortedSeq({ basename(p) : p \in { q \in DOMAIN fs.files : dirname(q) = d } })
    IN  [ i \in 1..Len(names) |-> d \o sep \o names[i] ]

RECURSIVE Flatten(_)
Flatten(ss) == IF ss = <<>> THEN <<>> ELSE Head(ss) \o Flatten(Tail(ss))

\* The subdirectories of the input root
SubDirs(fs, root) == { d \in fs.dirs : dirname(d) = root /\ d # root }

\* os.walk(self.input) on a tree one level deep: the root's files, then each
\* subdirectory's, the subdirectories in the order the system lists them
os_walk(fs, root, order) ==
    SortedFilesOf(fs, root) \o Flatten([ i \in 1..Len(order) |-> SortedFilesOf(fs, order[i]) ])

\* Phockup.check_directories (the input root exists), and the start of
\* walk_directory
CheckDirectories ==
    /\ pc = "check"
    /\ disk' = IF ~exists(disk, self.output) /\ ~self.dry_run
               THEN makedirs(disk, self.output)
               ELSE disk
    /\ \E order \in Orders(SubDirs(disk, self.input)) :
         todo' = os_walk(disk, self.input, order)
    /\ pc' = "walk"
    /\ UNCHANGED <<self, logger, calls, run, first, disk0, vanished, exc>>

\* walk_directory, lines 76-79: an ignored file is hashed and logged
WalkIgnored ==
    /\ pc = "walk"
    /\ todo # <<>>
    /\ basename(Head(todo)) \in ignored_files
    /\ logger' = add_entry(logger, checksum(disk, Head(todo)), Head(todo),
                           EmptyStr, ACTION_IGNORE)
    /\ todo' = Tail(todo)
    /\ UNCHANGED <<self, disk, pc, calls, run, first, disk0, vanished, exc>>

\* The state after a process_file call that left the filesystem fs and the log
\* entries, and ended with exception e (NoExc: it returned)
Returned(fs, entries, e, call) ==
    /\ disk' = fs
    /\ logger' = entries
    /\ calls' = Append(calls, call)
    /\ vanished' = IF call.gone THEN vanished + 1 ELSE vanished
    /\ exc' = e
    /\ pc' = IF e = NoExc THEN "walk" ELSE "aborted"

\* A test of the path that takes no file for a sidecar
IsSidecarPathNever(file) == FALSE

\* process_file, line 174: the path ends in '.xmp'
IsSidecarPath(file) == endswith(file, DotXmp)

\* Phockup.process_file(file). vanish: another process removes the source
\* after the existence check of the free candidate and before the transfer.
\* Each \E x \in {e} names the value e as the code's local x.
process_file(file, vanish) ==
    IF IsSidecarPath(file)
    THEN Returned(disk, logger, NoExc, NoCall(file))
    ELSE
      \E np \in { get_file_name_and_path(self, file) } :
      \E fs1 \in { EnsureDir(self, disk, np.output) } :
      \E loop \in { CollisionLoop(self, fs1, file, np.target_file_path, InitialSuffix,
                                  np.target_file_path,
                                  InitialChecksum(self, fs1, file)) } :
      \E gone \in { vanish /\ loop.found = "free" /\ ~self.dry_run } :
      \E fs2 \in { IF gone THEN unlink(fs1, file) ELSE fs1 } :
      \E step \in { IF loop.found = "duplicate"
                    THEN SkipDuplicate(fs2, logger, file, loop.target_file,
                                       loop.checksum)
                    ELSE Transfer(self, fs2, logger, file, loop.target_file,
                                  loop.checksum, gone) } :
      \E xmp \in { IF step.xmp
                   THEN process_xmp(self, step.fs, file, np.target_file_name,
                                    loop.suffix, np.output)
                   ELSE XmpResult(step.fs, step.exc, None, None) } :
        Returned(xmp.fs, step.entries, xmp.exc,
                 CallRecord(file, np, loop, step.outcome, gone, xmp.exc,
                            xmp.xmp_original, xmp.xmp_path))

\* walk_directory, lines 81-82: process_file on the next file
WalkProcess ==
    /\ pc = "walk"
    /\ todo # <<>>
    /\ basename(Head(todo)) \notin ignored_files
    /\ \E vanish \in { v \in BOOLEAN : v => vanished < MaxVanish } :
         process_file(Head(todo), vanish)
    /\ todo' = Tail(todo)
    /\ UNCHANGED <<self, run, first, disk0>>

DotPickle == <<".", "p", "i", "c", "k", "l", "e">>

\* __init__, lines 46-49: the end of the run; the log is saved when output_log
\* is set (open() raises when the output directory does not exist)
Finish ==
    /\ pc = "walk"
    /\ todo = <<>>
    /\ LET log_name == basename(self.input) \o DotPickle
           filename == self.output \o sep \o log_name
       IN  IF ~self.output_log
           THEN /\ pc' = "done"
                /\ UNCHANGED <<disk, exc>>
           ELSE IF isdir(disk, self.output)
           THEN /\ disk' = save_to_disk(disk, logger, filename)
                /\ pc' = "done"
                /\ UNCHANGED exc
           ELSE /\ pc' = "aborted"
                /\ exc' = "FileNotFoundError"
                /\ UNCHANGED disk
    /\ UNCHANGED <<self, logger, todo, calls, run, first, disk0, vanished>>

\* The program is started again, as a new process, on the trees the first run
\* left, with the same configuration or, after a dry run, for real
Rerun ==
    /\ pc = "done"
    /\ run = "first"
    /\ vanished = 0
    /\ \E dry \in {self.dry_run, FALSE} :
         self' = [self EXCEPT !.dry_run = dry]
    /\ first' = [dry_run |-> self.dry_run, calls |-> calls,
                 before |-> disk0, after |-> disk, log |-> logger]
    /\ run' = "second"
    /\ disk0' = disk
    /\ logger' = NoEntries
    /\ calls' = <<>>
    /\ todo' = <<>>
    /\ pc' = "check"
    /\ UNCHANGED <<disk, vanished, exc>>

Next ==
    \/ CheckDirectories
    \/ WalkIgnored
    \/ WalkProcess
    \/ Finish
    \/ Rerun

Spec == Init /\ [][Next]_vars

SpecNames == InitNames /\ [][Next]_vars

\* The files of the input trees the traversal order is studied on
Walked ==
    Nested \cup { e \in Plain : \/ basename(e.path) \in ignored_files
                               \/ CatalogEntry(e.path).id = 1 }

\* Runs that copy or link input trees with subdirectories to an empty output
\* tree
InitWalk ==
    \E ln \in BOOLEAN, lg \in BOOLEAN, S \in SUBSET Walked :
         /\ Cardinality(S) <= MaxFiles
         /\ Start(S, FALSE, FALSE, ln, FALSE, lg, FALSE, EmptyStr)

\* The program is started again, as a new process with the same
\* configuration, on the same input tree and an output directory emptied
\* again
RerunEmptied ==
    /\ pc = "done"
    /\ run = "first"
    /\ vanished = 0
    /\ first' = [dry_run |-> self.dry_run, calls |-> calls,
                 before |-> disk0, after |-> disk, log |-> logger]
    /\ run' = "second"
    /\ disk' = disk0
    /\ logger' = NoEntries
    /\ calls' = <<>>
    /\ todo' = <<>>
    /\ pc' = "check"
    /\ UNCHANGED <<self, disk0, vanished, exc>>

NextWalk ==
    \/ CheckDirectories
    \/ WalkIgnored
    \/ WalkProcess
    \/ Finish
    \/ RerunEmptied

SpecWalk == InitWalk /\ [][NextWalk]_vars

\* The sidecar an earlier run left in the output tree with the seeded file:
\* its path, and the content of /i/a.xmp
SeededSidecar == splitext(SeededFile)[1] \o DotXmp

\* The files of the input trees with sidecars and two media formats
Paired ==
    OtherFormat \cup
    { e \in Plain : \/ basename(e.path) \in ignored_files
                    \/ splitext(basename(e.path))[1] = <<"b">>
                    \/ endswith(e.path, <<"b", ".", "j", ".", "x", "m", "p">>) }

\* Runs on input trees with sidecars, to an output tree that is empty or
\* holds a file and its sidecar
InitPaired ==
    \E mv \in BOOLEAN, ln \in BOOLEAN, S \in SUBSET Paired, seeded \in BOOLEAN :
         /\ Cardinality(S) <= MaxFiles
         /\ self = [input |-> InputRoot, output |-> OutputRoot,
                    move |-> mv, link |-> ln, dry_run |-> FALSE,
                    output_log |-> FALSE, original_filenames |-> FALSE,
                    path_root |-> EmptyStr]
         /\ disk = IF seeded
                   THEN [InitialDisk(S, TRUE) EXCEPT
                           !.files = Put(@, SeededSidecar, Bytes(4))]
                   ELSE InitialDisk(S, FALSE)
         /\ disk0 = disk
         /\ logger = NoEntries
         /\ pc = "check"
         /\ todo = <<>>
         /\ calls = <<>>
         /\ run = "first"
         /\ first = NoFirst
         /\ vanished = 0
         /\ exc = NoExc

SpecPaired == InitPaired /\ [][Next]_vars

(***************************************************************************)
(* The Logger on its own: any sequence of its operations                   *)
(***************************************************************************)

\* Bound of the model: the entries a log grows to
MaxEntries == 3

\* The fingerprints, the actions (one of them illegal) and the file the
\* operations are called with
LogKeys == { << Bytes(1) >>, EmptyStr }

IllegalAction == Len(ACTIONS_STR)

LogActions == { ACTION_COPY, ACTION_SKIP, IllegalAction }

LogFile == OutputRoot \o sep \o <<"i">> \o <<".", "p", "i", "c", "k", "l", "e">>

\* The number of entries of the log
RECURSIVE EntryCount(_)
EntryCount(entries) ==
    IF DOMAIN entries = {} THEN 0
    ELSE LET h == CHOOSE k \in DOMAIN entries : TRUE
         IN  Len(entries[h]) + EntryCount(Drop(entries, h))

\* A Logger just constructed, and an existing directory to save it in
InitLogger ==
    /\ self = [input |-> InputRoot, output |-> OutputRoot,
               move |-> FALSE, link |-> FALSE, dry_run |-> FALSE,
               output_log |-> TRUE, original_filenames |-> FALSE,
               path_root |-> EmptyStr]
    /\ disk = [files |-> NoEntries, dirs |-> {OutputRoot}]
    /\ disk0 = disk
    /\ logger = NoEntries
    /\ pc = "new"
    /\ todo = <<>>
    /\ calls = <<>>
    /\ run = "first"
    /\ first = NoFirst
    /\ vanished = 0
    /\ exc = NoExc

\* Logger.add_entry: the assertion passes
LogAdd ==
    /\ EntryCount(logger) < MaxEntries
    /\ \E hashsum \in LogKeys, action \in LogActions :
         /\ LegalAction(action)
         /\ logger' = add_entry(logger, hashsum, InputRoot, OutputRoot, action)
    /\ pc' = "add"
    /\ exc' = NoExc
    /\ UNCHANGED <<self, disk, todo, calls, run, first, disk0, vanished>>

\* Logger.add_entry: the assertion fails
LogAddIllegal ==
    /\ \E action \in LogActions : ~LegalAction(action)
    /\ pc' = "assert"
    /\ exc' = "AssertionError"
    /\ UNCHANGED <<self, disk, logger, todo, calls, run, first, disk0, vanished>>

\* Logger.save_to_disk
LogSave ==
    /\ disk' = save_to_disk(disk, logger, LogFile)
    /\ pc' = "save"
    /\ exc' = NoExc
    /\ UNCHANGED <<self, logger, todo, calls, run, first, disk0, vanished>>

\* Logger.read_from_disk of the file saved before
LogLoad ==
    /\ isfile(disk, LogFile)
    /\ logger' = read_from_disk(disk, LogFile)
    /\ pc' = "load"
    /\ exc' = NoExc
    /\ UNCHANGED <<self, disk, todo, calls, run, first, disk0, vanished>>

NextLogger ==
    \/ LogAdd
    \/ LogAddIllegal
    \/ LogSave
    \/ LogLoad

SpecLogger == InitLogger /\ [][NextLogger]_vars

(***************************************************************************)
(* main (src/phockup.py)                                                   *)
(***************************************************************************)

\* A main that lets both strategies through
ConflictIgnored(mv, ln) == FALSE

\* main, line 67: both strategies were selected
Conflict(mv, ln) == ln /\ mv

\* sys.exit(1)
SystemExit1 == "SystemExit(1)"

\* main after the options are parsed (lines 33-64): self holds the options it
\* will hand to Phockup, the other fields at their defaults
InitMain ==
    \E mv \in BOOLEAN, ln \in BOOLEAN, root \in PathRoots,
       S \in SUBSET Plain, seeded \in BOOLEAN :
         /\ Cardinality(S) <= MaxFiles
         /\ self = [input |-> InputRoot, output |-> OutputRoot,
                    move |-> mv, link |-> ln, dry_run |-> FALSE,
                    output_log |-> FALSE, original_filenames |-> FALSE,
                    path_root |-> root]
         /\ disk = InitialDisk(S, seeded)
         /\ disk0 = disk
         /\ logger = NoEntries
         /\ pc = "main"
         /\ todo = <<>>
         /\ calls = <<>>
         /\ run = "first"
         /\ first = NoFirst
         /\ vanished = 0
         /\ exc = NoExc

\* main, lines 67-83: the configuration error, or the Phockup constructor
Main ==
    /\ pc = "main"
    /\ IF Conflict(self.move, self.link)
       THEN /\ pc' = "exited"
            /\ exc' = SystemExit1
       ELSE /\ pc' = "check"
            /\ exc' = exc
    /\ UNCHANGED <<self, disk, logger, todo, calls, run, first, disk0, vanished>>

NextMain ==
    \/ Main
    \/ CheckDirectories
    \/ WalkIgnored
    \/ WalkProcess
    \/ Finish
    \/ Rerun

SpecMain == InitMain /\ [][NextMain]_vars

(***************************************************************************)
(* Properties                                                              *)
(***************************************************************************)

\* The calls that did not return at once (the path did not end in '.xmp')
Primaries(cs) == { i \in 1..Len(cs) : cs[i].outcome # "xmp" }

\* The call transferred its file
Transferred(c) == c.outcome \in {"copy", "move", "link"}

\* The files below the output root
OutputFiles(fs) == { p \in DOMAIN fs.files : startswith(p, OutputRoot \o sep) }

\* name-<n>.ext for the path name.ext
Numbered(path, n) ==
    splitext(path)[1] \o <<"-", DigitChar[n + 1]>> \o splitext(path)[2]

\* Calls i < j < k of a first, real run on an empty output tree are the only
\* ones for their destination path, and their sources differ in content
ThreeCollide(i, j, k) ==
    /\ run = "first"
    /\ ~self.dry_run
    /\ OutputFiles(disk0) = {}
    /\ vanished = 0
    /\ i < j /\ j < k
    /\ { n \in Primaries(calls) : calls[n].target_file_path = calls[i].target_file_path }
         = {i, j, k}
    /\ Cardinality({ disk0.files[calls[n].file] : n \in {i, j, k} }) = Cardinality({i, j, k})

\* The files of calls i, j, k were placed at the paths of dests, in this order
PlacedAt(i, j, k, dests) ==
    /\ << calls[i].target_file, calls[j].target_file, calls[k].target_file >> = dests
    /\ \A n \in {i, j, k} :
         /\ Transferred(calls[n])
         /\ isfile(disk, calls[n].target_file)
         /\ disk.files[Resolve(calls[n].target_file)] = disk0.files[calls[n].file]

CopyTwice ==
    /\ run = "second"
    /\ ~self.move /\ ~self.link
    /\ ~first.dry_run /\ ~self.dry_run

\* The log holds a skip entry of the call
SkipLogged(c) ==
    /\ c.checksum \in DOMAIN logger
    /\ \E n \in 1..Len(logger[c.checksum]) :
         logger[c.checksum][n] = [src |-> c.file, dst |-> c.target_file, action |-> "skip"]

\* C2: when the program is run with the copy strategy and then run again on
\* the unchanged input tree and the output tree the first run left, every file
\* process_file handles in the second run ends as a skip with a skip entry, at
\* the destination the first run gave it; no file or directory is created and
\* no media file changes.
C2_SecondRunSkips ==
    CopyTwice =>
        /\ \A i \in Primaries(calls) :
             /\ calls[i].outcome = "skip"
             /\ SkipLogged(calls[i])
             /\ \E n \in 1..Len(first.calls) :
                  /\ first.calls[n].file = calls[i].file
                  /\ first.calls[n].target_file = calls[i].target_file
                  /\ first.calls[n].suffix = calls[i].suffix
        /\ DOMAIN disk.files = DOMAIN disk0.files
        /\ disk.dirs = disk0.dirs
        /\ \A p \in DOMAIN disk0.files :
             disk0.files[p].id # 0 => disk.files[p] = disk0.files[p]

\* A second copy run has skipped a file that the first run had given a
\* numeric suffix
C2_Witness ==
    /\ CopyTwice
    /\ pc = "done"
    /\ \E i \in Primaries(calls) :
         /\ calls[i].outcome = "skip"
         /\ calls[i].suffix > InitialSuffix
         /\ \E n \in 1..Len(first.calls) :
              first.calls[n].file = calls[i].file /\ first.calls[n].outcome = "copy"

\* C3 as stated: with dry_run set, a run performs no filesystem mutation,
\* whatever move, link and output_log are: at every point of the run the files
\* and the directories are those the run started with.
C3_DryRunPure ==
    self.dry_run => disk = disk0

\* A real run follows a dry run of the same configuration on the same trees,
\* and both are over
DryThenReal ==
    /\ run = "second"
    /\ pc = "done"
    /\ first.dry_run /\ ~self.dry_run
    /\ first.before = disk0
    /\ vanished = 0

\* C4 as stated: the destination a dry run reports for each file, primary and
\* sidecar, is the destination a real run of the same configuration on the
\* same trees assigns to it, numeric collision suffix included.
C4_DryRunFidelity ==
    DryThenReal =>
        /\ Len(first.calls) = Len(calls)
        /\ \A i \in 1..Len(calls) :
             /\ first.calls[i].file = calls[i].file
             /\ first.calls[i].target_file = calls[i].target_file
             /\ first.calls[i].xmp_path = calls[i].xmp_path

\* The primary file of call c was transferred, for real, and process_xmp found
\* a sidecar and returned
SidecarMoved(c) ==
    /\ Transferred(c)
    /\ Truthy(c.xmp_original)
    /\ c.exc = NoExc

\* The numeric suffix of the destination of the primary file of call c: what
\* stands between the root and the extension of the computed path
PrimarySuffix(c) ==
    SubSeq(c.target_file,
           Len(splitext(c.target_file_path)[1]) + 1,
           Len(c.target_file) - Len(splitext(c.target_file_path)[2]))

\* The sidecar of call c is found at <source path>.xmp first, then at
\* <source path without extension>.xmp, as the filesystem was when the run began
SidecarSource(c) ==
    IF isfile(disk0, c.file \o DotXmp)
    THEN c.xmp_original = c.file \o DotXmp
    ELSE /\ isfile(disk0, splitext(c.file)[1] \o DotXmp)
         /\ c.xmp_original = splitext(c.file)[1] \o DotXmp

\* The sidecar of call c went the way of the primary file: it is at its
\* destination, and at its source unless the strategy is move
SidecarStrategy(c) ==
    /\ isfile(disk, c.xmp_path)
    /\ isfile(disk, c.xmp_original) <=> (c.outcome # "move")

\* C5 as stated: after a successful transfer of a primary file to
\* <dir>/<base><suffix><ext>, its sidecar, found at <source path>.xmp first or
\* else at <source path without extension>.xmp, is transferred with the same
\* strategy to <dir>/<base><suffix>.xmp, whichever of the two names it had.
C5_SidecarBaseName ==
    \A i \in 1..Len(calls) :
        SidecarMoved(calls[i]) =>
            /\ SidecarSource(calls[i])
            /\ SidecarStrategy(calls[i])
            /\ calls[i].xmp_path =
                 calls[i].output \o sep \o splitext(calls[i].target_file_name)[1]
                   \o PrimarySuffix(calls[i]) \o DotXmp

\* The log new is the log old with entry e appended under key k, and nothing
\* else changed
AppendedAt(old, new, k, e) ==
    /\ DOMAIN new = DOMAIN old \cup {k}
    /\ new[k] = Append(IF k \in DOMAIN old THEN old[k] ELSE <<>>, e)
    /\ \A h \in DOMAIN old \ {k} : new[h] = old[h]

\* This step is a process_file call
CallStep == Len(calls') = Len(calls) + 1

\* The call of this step
ThisCall == calls'[Len(calls')]

\* C6: when process_file reaches a candidate that exists and has the content of
\* the source, it records one skip entry and returns; the source, its sidecar
\* and every file and directory of the output tree are as before, under each
\* strategy.
C6_SkipLeavesAll ==
    [][ (CallStep /\ ThisCall.outcome = "skip") =>
          /\ isfile(disk, ThisCall.target_file)
          /\ disk.files[Resolve(ThisCall.target_file)] = disk.files[Resolve(ThisCall.file)]
          /\ disk' = disk
          /\ AppendedAt(logger, logger', << disk.files[Resolve(ThisCall.file)] >>,
                        [src |-> ThisCall.file, dst |-> ThisCall.target_file,
                         action |-> "skip"])
          /\ pc' = "walk"
      ]_vars

\* Under the move strategy a primary file that has a sidecar was skipped as a
\* duplicate
C6_Witness ==
    /\ self.move /\ ~self.dry_run
    /\ \E i \in 1..Len(calls) :
         /\ calls[i].outcome = "skip"
         /\ isfile(disk, splitext(calls[i].file)[1] \o DotXmp)

\* The kind of log entry that matches the outcome of a call
KindOf(outcome) == IF outcome = "missing" THEN "skip" ELSE outcome

\* C7 as stated: every process_file call that ends in a transfer or in a skip
\* (duplicate, or source missing at transfer time) appends exactly one entry,
\* of the matching kind, under the content fingerprint of the source, whether
\* or not output_log is set and whether or not a name collided.
C7_OneEntryByFingerprint ==
    [][ (CallStep /\ ThisCall.outcome \in {"copy", "move", "link", "skip", "missing"}) =>
          AppendedAt(logger, logger', << disk0.files[Resolve(ThisCall.file)] >>,
                     [src |-> ThisCall.file, dst |-> ThisCall.target_file,
                      action |-> KindOf(ThisCall.outcome)])
      ]_vars

\* C7 amended: every process_file call that ends in a transfer (copy, move or
\* link, not a dry run) or in a duplicate skip appends exactly one entry, of
\* the matching kind; a call that ends because the source is missing appends
\* none. The entry is stored under the content fingerprint of the source when
\* output_log is set or a candidate destination existed, and under the empty
\* string otherwise.
C7_OneEntryLazyKey ==
    [][ CallStep =>
          IF ThisCall.outcome \in {"copy", "move", "link", "skip"}
          THEN AppendedAt(logger, logger',
                          IF \/ self.output_log
                             \/ ThisCall.outcome = "skip"
                             \/ ThisCall.target_file # ThisCall.target_file_path
                          THEN << disk0.files[Resolve(ThisCall.file)] >>
                          ELSE EmptyStr,
                          [src |-> ThisCall.file, dst |-> ThisCall.target_file,
                           action |-> ThisCall.outcome])
          ELSE ThisCall.outcome = "missing" => logger' = logger
      ]_vars

\* With output_log unset, the log holds an entry under the empty string and an
\* entry under a fingerprint, and a call ended because its source was missing
C7_Witness ==
    /\ ~self.output_log
    /\ EmptyStr \in DOMAIN logger
    /\ \E h \in DOMAIN logger : h # EmptyStr
    /\ \E i \in 1..Len(calls) : calls[i].outcome = "missing"

\* C8 as stated: under each strategy, when the source no longer exists as its
\* transfer is attempted, process_file returns normally without creating the
\* destination, the file counts as skipped, and the walk goes on.
C8_VanishedSkipped ==
    \A i \in 1..Len(calls) :
        calls[i].gone =>
            /\ calls[i].outcome = "missing"
            /\ calls[i].exc = NoExc
            /\ ~isfile(disk, calls[i].target_file)
            /\ (i = Len(calls) => pc # "aborted")

\* The file is classified as an image or video and its resolved date exists
\* and is not a guess
DatedMedia(file) ==
    /\ Truthy(ExifData(file))
    /\ "MIMEType" \in DOMAIN ExifData(file)
    /\ is_image_or_video(ExifData(file).MIMEType)
    /\ Truthy(DateFromExif(file))
    /\ Truthy(DateFromExif(file).date)
    /\ ~DateFromExif(file).guessing

\* The configured root: path_root, or the input root when path_root is empty
ConfiguredRoot == IF self.path_root # EmptyStr THEN self.path_root ELSE self.input

\* The directory dir relative to root: the leading root prefix stripped, the
\* rest kept, empty for the root itself
RelativeTo(dir, root) ==
    IF rstripSep(dir) = rstripSep(root) THEN EmptyStr
    ELSE IF startswith(dir, rstripSep(root) \o sep)
    THEN SubSeq(dir, Len(rstripSep(root)) + 2, Len(dir))
    ELSE dir

\* C9 as stated: for every file that is unclassified or has no non-guess date,
\* get_output_dir returns <output>/unknown/<R>, R being the directory of the
\* file relative to the configured root: only the leading root prefix is
\* stripped, the rest is kept, and R is empty for a file directly in the root;
\* files of different directories get different R.
C9_UnknownRelativePath ==
    \A i \in Primaries(calls) :
        ~DatedMedia(calls[i].file) =>
            /\ calls[i].output =
                 sepjoin(<< self.output, Unknown,
                            RelativeTo(dirname(calls[i].file), ConfiguredRoot) >>)
            /\ \A j \in Primaries(calls) :
                 (/\ ~DatedMedia(calls[j].file)
                  /\ dirname(calls[j].file) # dirname(calls[i].file))
                    => calls[j].output # calls[i].output

\* s occurs in t
Contains(t, s) == \E k \in 1..Len(t) : MatchAt(t, k, s)

\* C10: a file is placed under <output>/archive/<yyyy/mm/dd of its date> only
\* if it is classified as an image or video and its resolved date exists and is
\* not a guess; every other file is placed under <output>/unknown/, and the
\* value of its date, if it has one, does not appear in its destination
\* directory.
C10_ArchiveOnlyForRealDates ==
    \A i \in Primaries(calls) :
        /\ startswith(calls[i].output, sepjoin(<< self.output, Archive >>))
             => /\ DatedMedia(calls[i].file)
                /\ calls[i].output =
                     sepjoin(<< self.output, Archive,
                                strftime(DateFromExif(calls[i].file).date) >>)
        /\ ~DatedMedia(calls[i].file)
             => /\ startswith(calls[i].output, sepjoin(<< self.output, Unknown >>) \o sep)
                /\ (Truthy(DateFromExif(calls[i].file))
                      /\ Truthy(DateFromExif(calls[i].file).date))
                     => ~Contains(calls[i].output,
                                  strftime(DateFromExif(calls[i].file).date))

\* A classified file whose date is a guess has been placed, and not under the
\* archive
C10_Witness ==
    \E i \in Primaries(calls) :
        /\ Classified(calls[i].file)
        /\ Truthy(DateFromExif(calls[i].file))
        /\ DateFromExif(calls[i].file).guessing
        /\ startswith(calls[i].output, sepjoin(<< self.output, Unknown >>))

\* C11 as stated: with original_filenames set, the destination name that
\* get_file_name_and_path computes for any file, classified or not, dated or
\* not, is the base name of the source, character for character.
C11_OriginalNameKept ==
    self.original_filenames =>
        \A i \in Primaries(calls) :
            calls[i].target_file_name = basename(calls[i].file)

\* The resolved date of the file has a value, guess or not
HasDateValue(file) ==
    /\ Truthy(DateFromExif(file))
    /\ Truthy(DateFromExif(file).date)

\* YYYYMMDD_HHMMSS of the date d
Stamp(d) ==
    Format0D(d.year, 4) \o Format0D(d.month, 2) \o Format0D(d.day, 2) \o <<"_">>
      \o Format0D(d.hour, 2) \o Format0D(d.minute, 2) \o Format0D(d.second, 2)

\* C12 as stated: with original_filenames unset, the name
\* YYYYMMDD_HHMMSS[subseconds]<extension> is synthesized only for a classified
\* file whose resolved date exists and is not a guess; an unclassified file, a
\* file with no resolved date and a file with only a guess date keep their
\* base name unchanged.
C12_DateNameOnlyForRealDates ==
    ~self.original_filenames =>
        \A i \in Primaries(calls) :
            ~DatedMedia(calls[i].file) =>
                calls[i].target_file_name = basename(calls[i].file)

\* C12 amended: with original_filenames unset, the name
\* YYYYMMDD_HHMMSS[subseconds]<extension>, lower-cased, is synthesized for
\* every classified file whose resolved date has a value, a guess included; a
\* classified file without a date value gets its base name lower-cased; only
\* an unclassified file keeps its base name unchanged.
C12_DateNameForAnyDateValue ==
    ~self.original_filenames =>
        \A i \in Primaries(calls) :
            calls[i].target_file_name =
                IF Classified(calls[i].file) /\ HasDateValue(calls[i].file)
                THEN lower(Stamp(DateFromExif(calls[i].file).date)
                           \o DateFromExif(calls[i].file).subseconds
                           \o splitext(basename(calls[i].file))[2])
                ELSE IF Classified(calls[i].file)
                THEN lower(basename(calls[i].file))
                ELSE basename(calls[i].file)

\* A classified file whose date is a guess with subseconds got the name made
\* of that date
C12_Witness ==
    /\ ~self.original_filenames
    /\ \E i \in Primaries(calls) :
         /\ HasDateValue(calls[i].file)
         /\ DateFromExif(calls[i].file).guessing
         /\ calls[i].target_file_name =
              <<"2", "0", "2", "3", "0", "1", "0", "1", "_",
                "1", "2", "0", "0", "0", "0", "0", "7", ".", "j">>

\* C13: when both move and link are selected, main reports the error and
\* exits with a non-zero status before the Phockup object is constructed:
\* check_directories and walk_directory are never reached, and no file or
\* directory, the output root included, is created or changed.
C13_MoveAndLinkRejected ==
    (self.move /\ self.link) =>
        /\ pc \in {"main", "exited"}
        /\ pc = "exited" => exc = SystemExit1
        /\ disk = disk0
        /\ logger = NoEntries
        /\ calls = <<>>
        /\ todo = <<>>

\* main has exited on the configuration error, with files in the input tree
\* and no output root
C13_Witness ==
    /\ self.move /\ self.link
    /\ pc = "exited"
    /\ exc = SystemExit1
    /\ DOMAIN disk.files # {}
    /\ ~exists(disk, self.output)

\* The source and the destination of each process_file call of cs, in order
Placements(cs) ==
    [ i \in 1..Len(cs) |-> [file |-> cs[i].file, target_file |-> cs[i].target_file] ]

\* C14 as stated: two runs with one configuration on one input tree, each
\* started on an empty output directory, visit the files in the same order,
\* whatever the order in which the system lists directory entries, and so
\* give the same destination paths, numeric suffixes included, and the same
\* Action Log (timestamps apart).
C14_SameRunsSamePlaces ==
    (run = "second" /\ pc = "done" /\ vanished = 0) =>
        /\ Placements(calls) = Placements(first.calls)
        /\ logger = first.log

\* The file is named .DS_Store, Thumbs.db or ZbThumbnail.info
Ignored(file) ==
    basename(file) \in
        { <<".", "D", "S", "_", "S", "t", "o", "r", "e">>,
          <<"T", "h", "u", "m", "b", "s", ".", "d", "b">>,
          <<"Z", "b", "T", "h", "u", "m", "b", "n", "a", "i", "l", ".",
            "i", "n", "f", "o">> }

\* C15: a file whose name is in the ignore list is never passed to
\* process_file and never transferred to the output tree, under any strategy;
\* walk_directory fingerprints it and appends exactly one Action Log entry for
\* it, of kind ignore, with an empty destination.
C15_IgnoredOnlyLogged ==
    /\ [][ (pc = "walk" /\ todo # <<>> /\ Ignored(Head(todo))) =>
             /\ todo' = Tail(todo)
             /\ calls' = calls
             /\ disk' = disk
             /\ AppendedAt(logger, logger', << disk.files[Head(todo)] >>,
                           [src |-> Head(todo), dst |-> EmptyStr,
                            action |-> "ignore"])
         ]_vars
    /\ [] /\ \A i \in 1..Len(calls) : ~Ignored(calls[i].file)
          /\ \A p \in OutputFiles(disk) :
               /\ ~Ignored(p)
               /\ \A q \in DOMAIN disk0.files :
                    Ignored(q) => disk.files[p].id # disk0.files[q].id
          /\ \A h \in DOMAIN logger : \A k \in 1..Len(logger[h]) :
               Ignored(logger[h][k].src) <=> logger[h][k].action = "ignore"

\* A move run is over: it transferred a file, and logged the ignored file,
\* which is still where it was
C15_Witness ==
    /\ pc = "done"
    /\ self.move /\ ~self.dry_run
    /\ \E i \in 1..Len(calls) : calls[i].outcome = "move"
    /\ \E q \in DOMAIN disk.files :
         /\ Ignored(q)
         /\ << disk.files[q] >> \in DOMAIN logger
         /\ logger[<< disk.files[q] >>] =
              << [src |-> q, dst |-> EmptyStr, action |-> "ignore"] >>

\* Every entry of the log old is in the log new, at its place
Kept(old, new) ==
    \A h \in DOMAIN old :
        /\ h \in DOMAIN new
        /\ Len(new[h]) >= Len(old[h])
        /\ SubSeq(new[h], 1, Len(old[h])) = old[h]

\* The log new is the log old with one entry more, at the end of the
\* sequence of one fingerprint
OneAppended(old, new) ==
    \E h \in DOMAIN new :
        /\ DOMAIN new = DOMAIN old \cup {h}
        /\ Len(new[h]) = (IF h \in DOMAIN old THEN Len(old[h]) ELSE 0) + 1
        /\ SubSeq(new[h], 1, Len(new[h]) - 1) = (IF h \in DOMAIN old THEN old[h] ELSE <<>>)
        /\ \A k \in DOMAIN old \ {h} : new[k] = old[k]

\* C16 as stated: across any sequence of add_entry, save_to_disk and
\* read_from_disk, an entry once recorded is never modified or removed;
\* add_entry with a legal action appends exactly one entry at the end of the
\* sequence of its fingerprint and leaves the other sequences unchanged;
\* add_entry with an illegal action fails and leaves the log unchanged.
C16_AppendOnly ==
    [][ /\ Kept(logger, logger')
        /\ pc' = "add" => OneAppended(logger, logger')
        /\ pc' = "assert" => (logger' = logger /\ exc' = "AssertionError")
      ]_vars

\* C16 amended: across any sequence of add_entry and save_to_disk, an entry
\* once recorded is never modified or removed; add_entry with a legal action
\* appends exactly one entry at the end of the sequence of its fingerprint and
\* leaves the other sequences unchanged; add_entry with an illegal action
\* fails and leaves the log unchanged; save_to_disk leaves the log unchanged.
\* read_from_disk replaces the whole log by the mapping the file holds: the
\* entries recorded since that file was saved are removed.
C16_AppendOnlyUntilLoad ==
    [][ /\ pc' # "load" => Kept(logger, logger')
        /\ pc' = "add" => OneAppended(logger, logger')
        /\ pc' = "assert" => (logger' = logger /\ exc' = "AssertionError")
        /\ pc' = "save" => (logger' = logger /\ disk'.files[LogFile].log = logger)
        /\ pc' = "load" => logger' = disk.files[LogFile].log
      ]_vars

\* A log of three entries, two of them under one fingerprint, after a load
\* followed by further add_entry calls
C16_Witness ==
    /\ pc = "add"
    /\ isfile(disk, LogFile)
    /\ disk.files[LogFile].log # NoEntries
    /\ disk.files[LogFile].log # logger
    /\ \E h \in DOMAIN logger : Len(logger[h]) >= 2
    /\ EntryCount(logger) = MaxEntries

\* The .xmp files of the input tree, as the run found it
InputSidecars ==
    { q \in DOMAIN disk0.files :
        startswith(q, InputRoot \o sep) /\ endswith(q, <<".", "x", "m", "p">>) }

\* A transferred primary file of this run took q along as its sidecar
TakenAlong(q) ==
    \E i \in 1..Len(calls) :
        /\ Transferred(calls[i])
        /\ calls[i].xmp_original = q

\* C17: process_file returns at once for every path that ends in .xmp, so an
\* .xmp file gets to the output tree only through process_xmp, as the sidecar
\* of a primary file that was transferred (not skipped) in the same run; an
\* .xmp file without such a primary is not transferred and has no Action Log
\* entry.
C17_SidecarsOnlyAlong ==
    /\ [][ (pc = "walk" /\ todo # <<>>
              /\ endswith(Head(todo), <<".", "x", "m", "p">>)) =>
             /\ todo' = Tail(todo)
             /\ disk' = disk
             /\ logger' = logger
             /\ pc' = "walk"
         ]_vars
    /\ [] \A q \in InputSidecars :
            /\ ~TakenAlong(q) =>
                 /\ isfile(disk, q)
                 /\ \A p \in OutputFiles(disk) :
                      disk.files[p] = disk0.files[q] =>
                        (p \in DOMAIN disk0.files /\ disk0.files[p] = disk.files[p])
            /\ \A h \in DOMAIN logger : \A k \in 1..Len(logger[h]) :
                 logger[h][k].src # q

\* A move run is over in which the primary file of an .xmp file was skipped
\* as a duplicate and the .xmp file stayed, while another file was moved
C17_Witness ==
    /\ pc = "done"
    /\ self.move /\ ~self.dry_run
    /\ \E i \in 1..Len(calls) : calls[i].outcome = "move"
    /\ \E q \in InputSidecars :
         /\ ~TakenAlong(q)
         /\ isfile(disk, q)
         /\ \E i \in 1..Len(calls) :
              /\ calls[i].outcome = "skip"
              /\ splitext(calls[i].file)[1] \o <<".", "x", "m", "p">> = q

\* The k-th candidate path of the call c: the computed path, then the path
\* with the suffixes -2, -3, ...
Candidate(c, k) ==
    IF k = 1 THEN c.target_file_path ELSE Numbered(c.target_file_path, k)

\* The candidates the loop of call c examined on the filesystem fs before it
\* ended at the last of them: each held a file of other content than the
\* source, and no two of them are the same path
ExaminedOnce(fs, c) ==
    /\ c.target_file = Candidate(c, c.suffix)
    /\ \A k \in 1..(c.suffix - 1) :
         /\ isfile(fs, Candidate(c, k))
         /\ fs.files[Resolve(Candidate(c, k))] # fs.files[Resolve(c.file)]
    /\ \A j \in 1..c.suffix : \A k \in 1..c.suffix :
         j # k => Resolve(Candidate(c, j)) # Resolve(Candidate(c, k))

\* The loop of call c ended, on the filesystem fs, in a duplicate skip, in the
\* transfer (reported only, in a dry run) to a path at which no file exists,
\* or in a missing-source skip
EndedInOneOfThree(fs, c) ==
    \/ /\ c.outcome = "skip"
       /\ isfile(fs, c.target_file)
       /\ fs.files[Resolve(c.target_file)] = fs.files[Resolve(c.file)]
    \/ /\ c.outcome \in {"copy", "move", "link", "dry"}
       /\ ~isfile(fs, c.target_file)
    \/ /\ c.outcome = "missing"
       /\ ~isfile(fs, c.target_file)

\* C18 as stated: for every file and every output tree, the collision loop of
\* process_file terminates, and ends in exactly one of a duplicate skip, a
\* transfer to the first candidate path (unsuffixed, then with increasing
\* suffixes) at which no file exists, and a missing-source skip; it examines
\* no candidate path twice.
C18_LoopEndsInOneOfThree ==
    [][ (CallStep /\ ThisCall.outcome # "xmp") =>
          /\ ExaminedOnce(disk, ThisCall)
          /\ EndedInOneOfThree(disk, ThisCall)
      ]_vars

\* What holds of the loop: the same, but for the calls of the link strategy
\* whose source was gone as os.link was tried
LoopEndsUnlessLinkVanished ==
    [][ (CallStep /\ ThisCall.outcome # "xmp"
           /\ ~(ThisCall.gone /\ self.link /\ ~self.move)) =>
          /\ ExaminedOnce(disk, ThisCall)
          /\ EndedInOneOfThree(disk, ThisCall)
      ]_vars

\* The files of the input tree on the filesystem fs
InputFiles(fs) == { q \in DOMAIN fs.files : startswith(q, InputRoot \o sep) }

\* Another process removed the file q during this run
RemovedByOther(q) == \E i \in 1..Len(calls) : calls[i].gone /\ calls[i].file = q

\* C19: after a complete run that is not a dry run, with the copy or the link
\* strategy the input tree is as it was (every primary file and every sidecar
\* is at its source path with its content); with the move strategy every
\* transferred file is gone from its source path and every file skipped as a
\* duplicate is still at its source path.
C19_StrategyEffectOnSource ==
    (pc = "done" /\ ~self.dry_run) =>
        IF ~self.move
        THEN /\ InputFiles(disk) \subseteq InputFiles(disk0)
             /\ \A q \in InputFiles(disk0) :
                  ~RemovedByOther(q) =>
                     (isfile(disk, q) /\ disk.files[q] = disk0.files[q])
        ELSE \A i \in Primaries(calls) :
               /\ calls[i].outcome = "move" =>
                    /\ ~isfile(disk, calls[i].file)
                    /\ Truthy(calls[i].xmp_original) =>
                         ~isfile(disk, calls[i].xmp_original)
               /\ calls[i].outcome = "skip" =>
                    /\ isfile(disk, calls[i].file)
                    /\ disk.files[calls[i].file] = disk0.files[calls[i].file]

\* A move run is over that moved a primary file with its sidecar and skipped
\* a duplicate
C19_Witness ==
    /\ pc = "done"
    /\ self.move /\ ~self.dry_run
    /\ \E i \in Primaries(calls) :
         /\ calls[i].outcome = "move"
         /\ Truthy(calls[i].xmp_original)
         /\ isfile(disk, calls[i].xmp_path)
    /\ \E i \in Primaries(calls) : calls[i].outcome = "skip"

\* C20 as stated: no transfer of a run, of a primary file in process_file or
\* of a sidecar in process_xmp, writes to a path at which a file exists: every
\* file of the output tree keeps its content through every process_file call,
\* and each primary file that is transferred ends at a destination path of
\* its own.
C20_NoOverwrite ==
    /\ [][ CallStep =>
             /\ \A p \in OutputFiles(disk) :
                  /\ p \in DOMAIN disk'.files
                  /\ disk'.files[p] = disk.files[p]
             /\ Transferred(ThisCall) =>
                  /\ ~isfile(disk, ThisCall.target_file)
                  /\ Truthy(ThisCall.xmp_original) =>
                       ~isfile(disk, ThisCall.xmp_path)
         ]_vars
    /\ [] \A i \in Primaries(calls) : \A j \in Primaries(calls) :
            (i # j /\ Transferred(calls[i]) /\ Transferred(calls[j]))
               => calls[i].target_file # calls[j].target_file

====
